---- MODULE Spec2Model ----
(***************************************************************************)
(* Reward points ledger and redemption engine of the EV platform.          *)
(*                                                                         *)
(* The repository holds two implementations that share no state:           *)
(*   - ev-platform: src/ev-platform/backend/app/api/rewards.py, over the   *)
(*     tables rewards and reward_rules (app/models/reward.py);             *)
(*   - backend: src/backend/routers/rewards.py with                        *)
(*     src/backend/services/reward_service.py, over the tables             *)
(*     reward_events and reward_accounts (src/backend/database.py).        *)
(*                                                                         *)
(* Time is counted in whole hours since 00:00 UTC of day 0.                *)
(* db.func.sum(col) in the ev-platform handlers is read as the SQL         *)
(* aggregate SUM(col) over the filtered rows, "or 0" when there are none.  *)
(***************************************************************************)
EXTENDS Integers, Sequences, FiniteSets, TLC

VARIABLES
    now,        \* the clock, in hours
    rules,      \* ev-platform: rows of reward_rules, in id order
    rewards,    \* ev-platform: rows of rewards, in id (creation) order
    events,     \* backend: rows of reward_events, in creation order
    accounts,   \* backend: reward_accounts, user -> row or NoAccount
    pc,         \* backend: position of each worker process in its handler
    loc,        \* backend: each worker's request and ORM-loaded values
    redeemed,   \* backend: points reported as redeemed so far, per user
    last,       \* outcome of the last completed request
    call        \* a direct call of a function of the services and its results

vars == <<now, rules, call, rewards, events, accounts, pc, loc, redeemed, last>>

(***************************************************************************)
(* Bounds of the model.                                                    *)
(***************************************************************************)
MaxRewards == 2     \* rows of rewards in the general ev-platform runs
MaxAllocRewards == 3 \* rows of rewards in the allocation runs
MaxNow == 24        \* last clock value
MaxEvents == 3      \* rows of reward_events in the general backend runs
MaxCapEvents == 6   \* rows of reward_events in the daily cap runs
MaxConcEvents == 6  \* rows of reward_events in the concurrent runs
MaxExpiryRewards == 2 \* rows of rewards in the expiry runs
MaxExpiryYears == 1 \* years (of 366 days) the clock advances in the expiry runs
MaxFraudEvents == 7 \* rows of reward_events in the fraud and tier runs
MaxFraudNow == 36   \* last clock value in the fraud and tier runs
MaxUsersRewards == 2 \* rows of rewards in the two-user runs
MaxUsersEvents == 6 \* rows of reward_events in the two-user runs
MaxRedeemEvents == 6 \* rows of reward_events in the redemption request runs
MaxRedeemBalance == 1500 \* highest points_balance in those runs
MaxTierSteps == 31  \* point totals up to MaxTierSteps * 500 in the tier runs
MaxRecentRows == 6  \* redemption rows of the last hour in the check_fraud runs
MaxOtherRows == 2   \* older, and other users', redemption rows in those runs

HoursPerDay == 24

Min(a, b) == IF a <= b THEN a ELSE b
Max(a, b) == IF a >= b THEN a ELSE b

\* datetime.utcnow().date(): midnight of the current UTC day, in hours
Today(t) == (t \div HoursPerDay) * HoursPerDay

RECURSIVE SumOver(_, _)
SumOver(f, S) ==
    IF S = {} THEN 0
    ELSE LET i == CHOOSE x \in S : TRUE IN f[i] + SumOver(f, S \ {i})

(***************************************************************************)
(* Outcome of a request, as the caller sees it.                            *)
(***************************************************************************)
NoResult ==
    [impl |-> "none", op |-> "none", user |-> 0, arg |-> 0, etype |-> "none",
     status |-> 0, detail |-> "none", before |-> 0, points |-> 0]

Result(impl, op, user, arg, etype, status, detail, before, points) ==
    [impl |-> impl, op |-> op, user |-> user, arg |-> arg, etype |-> etype,
     status |-> status, detail |-> detail, before |-> before, points |-> points]

(***************************************************************************)
(* ev-platform: tables.                                                    *)
(***************************************************************************)
\* ids of the rows of the users table; a request may name any id of EVUserIds
EVUsers == {1, 2}
EVUserIds == {1, 2, 3}

\* RewardEventType members used in the runs
EVEventTypes == {"ride_completed", "daily_login"}

\* RewardEvent.points_earned is a plain int: no validator restricts its sign
EVPoints == {-5, 50}
AllocPoints == {30, 50, 100}

\* RewardRedemption.points_to_redeem: Field(..., gt=0)
EVRedeemAmounts == {20, 120}
AllocRedeemAmounts == {20, 120}

\* Column(Integer, nullable=True) caps: 0 stands for NULL, both are falsy in
\* "if rule.daily_cap:"
RuleRow(id, et, ppe, dcap, wcap, mcap, active, prio) ==
    [id |-> id, event_type |-> et, points_per_event |-> ppe, daily_cap |-> dcap,
     weekly_cap |-> wcap, monthly_cap |-> mcap, is_active |-> active,
     priority |-> prio]

\* contents of reward_rules the runs start from
RuleTables ==
    { << RuleRow(1, "ride_completed", 10, 60, 80, 150, TRUE, 1),
         RuleRow(2, "referral", 200, 0, 0, 0, TRUE, 1),
         RuleRow(3, "daily_login", 5, 0, 0, 0, FALSE, 1) >>,
      << RuleRow(1, "ride_completed", 10, 0, 0, 0, TRUE, 1),
         RuleRow(2, "ride_completed", 20, 60, 0, 0, TRUE, 1),
         RuleRow(3, "referral", 200, 0, 0, 0, TRUE, 2),
         RuleRow(4, "daily_login", 5, 0, 0, 0, TRUE, 1),
         RuleRow(5, "daily_login", 8, 0, 0, 0, TRUE, 2),
         RuleRow(6, "daily_login", 50, 0, 0, 0, FALSE, 3) >> }

\* a row of rewards; redeemed_at = -1 and redemption_amount = -1 stand for NULL,
\* redemption_amount is kept in hundredths of the currency unit
RewardRow(u, et, pts, bal, rule, t) ==
    [user_id |-> u, event_type |-> et, points_earned |-> pts,
     points_balance |-> bal, status |-> "accrued", rule_applied |-> rule,
     is_expired |-> FALSE, expires_at |-> t + 365 * HoursPerDay,
     redeemed_at |-> -1, redemption_amount |-> -1, created_at |-> t]

\* SUM(points_earned) over the rows with the indexes in S, or 0
SumPoints(rows, S) == SumOver([i \in 1..Len(rows) |-> rows[i].points_earned], S)

\* filter(user_id)
UserRows(rows, u) == {i \in 1..Len(rows) : rows[i].user_id = u}

\* filter(user_id, status == ACCRUED, is_expired == False)
AvailableIdx(rows, u) ==
    {i \in 1..Len(rows) : /\ rows[i].user_id = u
                          /\ rows[i].status = "accrued"
                          /\ rows[i].is_expired = FALSE}

\* available_points of get_user_reward_balance and of redeem_rewards
AvailablePoints(rows, u) == SumPoints(rows, AvailableIdx(rows, u))

\* current_balance of create_reward_event: filter(user_id, status == ACCRUED)
CurrentBalance(rows, u) ==
    SumPoints(rows, {i \in 1..Len(rows) : /\ rows[i].user_id = u
                                          /\ rows[i].status = "accrued"})

\* filter(user_id, event_type, created_at >= since)
WindowPoints(rows, u, et, since) ==
    SumPoints(rows, {i \in 1..Len(rows) : /\ rows[i].user_id = u
                                          /\ rows[i].event_type = et
                                          /\ rows[i].created_at >= since})

\* today.replace(day=1), in hours; day 0 is the first day of a month and the
\* months are taken as 30 days long
MonthStart(t) == ((t \div HoursPerDay) \div 30) * 30 * HoursPerDay

\* filter(event_type, is_active).order_by(priority.desc()).first(): a row of
\* the highest priority; the order among equal priorities is not specified
ApplicableRules(rs, et) ==
    LET act == {i \in 1..Len(rs) : rs[i].event_type = et /\ rs[i].is_active}
    IN {rs[i] : i \in {j \in act : \A k \in act : rs[k].priority <= rs[j].priority}}

\* query(...).limit(k).all() with no ORDER BY: k of the matching rows (all of
\* them when fewer match), in an order the database chooses
QueryLimit(M, k) ==
    LET n == Min(k, Cardinality(M))
    IN {s \in [1..n -> M] : \A a, b \in 1..n : a # b => s[a] # s[b]}

\* the loop over rewards_to_redeem, were it to keep the points it does not
\* take in the entry
RECURSIVE RedeemLoopKeepingRest(_, _, _, _, _, _)
RedeemLoopKeepingRest(rows, sel, i, points_redeemed, n, t) ==
    IF i > Len(sel) \/ points_redeemed >= n THEN rows
    ELSE LET r == rows[sel[i]]
             points_to_redeem_from_reward ==
                 Min(r.points_earned, n - points_redeemed)
         IN RedeemLoopKeepingRest(
                [rows EXCEPT ![sel[i]] =
                    [r EXCEPT !.status =
                                  IF points_to_redeem_from_reward = r.points_earned
                                  THEN "redeemed" ELSE "accrued",
                              !.points_earned = @ - points_to_redeem_from_reward,
                              !.redeemed_at = t,
                              !.redemption_amount = points_to_redeem_from_reward]],
                sel, i + 1, points_redeemed + points_to_redeem_from_reward, n, t)

\* the loop over rewards_to_redeem
RECURSIVE RedeemLoop(_, _, _, _, _, _)
RedeemLoop(rows, sel, i, points_redeemed, n, t) ==
    IF i > Len(sel) \/ points_redeemed >= n THEN rows
    ELSE LET r == rows[sel[i]]
             points_to_redeem_from_reward ==
                 Min(r.points_earned, n - points_redeemed)
         IN RedeemLoop(
                [rows EXCEPT ![sel[i]] =
                    [r EXCEPT !.status = "redeemed",
                              !.redeemed_at = t,
                              !.redemption_amount = points_to_redeem_from_reward]],
                sel, i + 1, points_redeemed + points_to_redeem_from_reward, n, t)

\* every HTTPException raised inside the handler's try block is caught by its
\* "except Exception" and re-raised with status 500
EVFail(op, u, arg, et, detail, before) ==
    /\ last' = Result("ev", op, u, arg, et, 500, detail, before, 0)
    /\ UNCHANGED <<now, rules, call, rewards, events, accounts, pc, loc, redeemed>>

(***************************************************************************)
(* ev-platform: POST /events                                               *)
(***************************************************************************)
EVCreateRewardEvent(u, et, pts, maxRows) ==
    IF u \notin EVUsers
    THEN EVFail("accrue", u, pts, et, "User not found", 0)
    ELSE IF ApplicableRules(rules, et) = {}
    THEN EVFail("accrue", u, pts, et, "No reward rule found for this event type", 0)
    ELSE \E rule \in ApplicableRules(rules, et) :
            LET daily_points == WindowPoints(rewards, u, et, Today(now))
                monthly_points == WindowPoints(rewards, u, et, MonthStart(now))
                current_balance == CurrentBalance(rewards, u)
            IN IF rule.daily_cap # 0 /\ daily_points + pts > rule.daily_cap
               THEN EVFail("accrue", u, pts, et, "Daily reward cap exceeded", current_balance)
               ELSE IF rule.monthly_cap # 0 /\ monthly_points + pts > rule.monthly_cap
               THEN EVFail("accrue", u, pts, et, "Monthly reward cap exceeded", current_balance)
               ELSE /\ Len(rewards) < maxRows
                    /\ rewards' = Append(rewards,
                           RewardRow(u, et, pts, current_balance + pts, rule.id, now))
                    /\ last' = Result("ev", "accrue", u, pts, et, 200, "created",
                                      current_balance, pts)
                                    /\ UNCHANGED <<now, rules, call, events, accounts, pc, loc, redeemed>>

\* redemption_id = f"red_{user_id}_{utcnow().strftime('%Y%m%d_%H%M%S')}": the
\* user, the day and the time of day of the clock reading t.  The clock counts
\* hours; strftime drops what is below the second, so that readings within one
\* second, like equal readings of the clock here, give the same identifier.
RedemptionId(u, t) == <<"red", u, t \div HoursPerDay, t % HoursPerDay>>

(***************************************************************************)
(* ev-platform: POST /redeem                                               *)
(***************************************************************************)
EVRedeemRewards(u, n) ==
    IF u \notin EVUsers
    THEN EVFail("redeem", u, n, "none", "User not found", 0)
    ELSE LET available_points == AvailablePoints(rewards, u)
         IN IF available_points < n
            THEN EVFail("redeem", u, n, "none", "Insufficient points for redemption",
                        available_points)
            ELSE \E sel \in QueryLimit(AvailableIdx(rewards, u), n \div 100 + 1) :
                 /\ rewards' = RedeemLoop(rewards, sel, 1, 0, n, now)
                 /\ last' = Result("ev", "redeem", u, n, "none", 200,
                                   "Rewards redeemed successfully", available_points, n)
                              /\ UNCHANGED <<now, rules, call, events, accounts, pc, loc, redeemed>>

\* the tier of get_user_reward_balance
EVTier(total_points) ==
    IF total_points >= 10000 THEN "Platinum"
    ELSE IF total_points >= 5000 THEN "Gold"
    ELSE IF total_points >= 1000 THEN "Silver"
    ELSE "Bronze"

(***************************************************************************)
(* ev-platform: GET /user/{user_id}/balance.  The handler has no try       *)
(* block: its 404 reaches the caller.  In the outcome, arg is              *)
(* total_points, before is available_points, points is expired_points and  *)
(* detail is the tier.                                                     *)
(***************************************************************************)
EVGetUserRewardBalance(u) ==
    /\ IF u \notin EVUsers
       THEN last' = Result("ev", "balance", u, 0, "none", 404, "User not found", 0, 0)
       ELSE LET total_points == SumPoints(rewards, UserRows(rewards, u))
                available_points == AvailablePoints(rewards, u)
                expired_points ==
                    SumPoints(rewards, {i \in UserRows(rewards, u) :
                                            rewards[i].is_expired = TRUE})
            IN last' = Result("ev", "balance", u, total_points, "none", 200,
                              EVTier(total_points), available_points,
                              expired_points)
    /\ UNCHANGED <<now, rules, call, rewards, events, accounts, pc, loc, redeemed>>

\* time passes between requests
Tick(d) ==
    /\ now + d <= MaxNow
    /\ now' = now + d
    /\ UNCHANGED <<rules, call, rewards, events, accounts, pc, loc, redeemed, last>>

(***************************************************************************)
(* backend: tables and RewardService.                                      *)
(***************************************************************************)
\* get_current_active_user: every request comes from a row of users
BUsers == {"u1", "u2"}

\* worker processes serving requests against the one database
Procs == {1, 2}

\* RewardService.POINTS_RULES.get(event_type, 0)
POINTS_RULES(et) ==
    CASE et = "ride_completed" -> 10
      [] et = "parcel_delivered" -> 15
      [] et = "rental_completed" -> 25
      [] et = "rental_on_time" -> 10
      [] et = "kyc_completed" -> 100
      [] et = "first_ride" -> 50
      [] et = "referral" -> 200
      [] et = "review_submitted" -> 5
      [] OTHER -> 0

\* RewardService.DAILY_CAPS.get(event_type); 0 stands for None
DAILY_CAPS(et) ==
    CASE et = "ride_completed" -> 500
      [] et = "parcel_delivered" -> 300
      [] et = "rental_completed" -> 200
      [] et = "review_submitted" -> 25
      [] OTHER -> 0

\* RewardService.TIER_THRESHOLDS
TIER_THRESHOLDS(tier) ==
    CASE tier = "bronze" -> 0
      [] tier = "silver" -> 1000
      [] tier = "gold" -> 5000
      [] tier = "platinum" -> 15000

\* the multiplier of calculate_points, in tenths.  The request metadata is
\* "none" (no metadata), "scooter" or "car" ({"vehicle_type": ...}), "dur8" or
\* "dur24" ({"duration_hours": 8} and {"duration_hours": 24})
Multiplier10(et, md) ==
    IF et = "rental_completed" /\ md = "dur24" THEN 15
    ELSE IF et = "rental_completed" /\ md = "dur8" THEN 12
    ELSE IF et = "ride_completed" /\ md = "scooter" THEN 12
    ELSE 10

EventRow(u, et, pts, md, t) ==
    [user_id |-> u, event_type |-> et, points_earned |-> pts, metadata |-> md,
     created_at |-> t]

\* n rows of reward_events alike
RepeatRow(row, n) == [i \in 1..n |-> row]

\* sum(event.points_earned for event in query.all())
SumEvents(evs, S) == SumOver([i \in 1..Len(evs) |-> evs[i].points_earned], S)

\* the today_events query without its user_id filter
TodayEventsOfAnyUser(evs, u, et, t) ==
    {i \in 1..Len(evs) : /\ evs[i].event_type = et
                         /\ evs[i].created_at >= Today(t)}

\* filter(user_id, event_type, created_at >= midnight of today)
TodayEvents(evs, u, et, t) ==
    {i \in 1..Len(evs) : /\ evs[i].user_id = u
                         /\ evs[i].event_type = et
                         /\ evs[i].created_at >= Today(t)}

\* RewardService.calculate_points
CalculatePoints(evs, u, et, md, t) ==
    LET base_points == POINTS_RULES(et)
        daily_cap == DAILY_CAPS(et)
        today_points == SumEvents(evs, TodayEvents(evs, u, et, t))
    IN IF base_points <= 0 THEN 0
       ELSE IF daily_cap # 0 /\ today_points + base_points > daily_cap
       THEN Max(0, daily_cap - today_points)
       ELSE (base_points * Multiplier10(et, md)) \div 10

\* calculate_tier with the names of the silver and gold tiers exchanged
CalculateTierNamesSwapped(points_balance) ==
    IF points_balance >= TIER_THRESHOLDS("platinum") THEN "platinum"
    ELSE IF points_balance >= TIER_THRESHOLDS("gold") THEN "silver"
    ELSE IF points_balance >= TIER_THRESHOLDS("silver") THEN "gold"
    ELSE "bronze"

\* RewardService.calculate_tier
CalculateTier(points_balance) ==
    IF points_balance >= TIER_THRESHOLDS("platinum") THEN "platinum"
    ELSE IF points_balance >= TIER_THRESHOLDS("gold") THEN "gold"
    ELSE IF points_balance >= TIER_THRESHOLDS("silver") THEN "silver"
    ELSE "bronze"

\* check_fraud's first query without its user_id filter
RecentRedemptionsOfAnyUser(evs, u, t) ==
    Cardinality({i \in 1..Len(evs) : /\ evs[i].event_type = "points_redeemed"
                                     /\ evs[i].created_at >= t - 1})

\* check_fraud, first query: the user's "points_redeemed" events of the last hour
RecentRedemptions(evs, u, t) ==
    Cardinality({i \in 1..Len(evs) : /\ evs[i].user_id = u
                                     /\ evs[i].event_type = "points_redeemed"
                                     /\ evs[i].created_at >= t - 1})

\* check_fraud, second query: points of the user's events of the last day
RecentPoints(evs, u, t) ==
    SumEvents(evs, {i \in 1..Len(evs) : /\ evs[i].user_id = u
                                        /\ evs[i].created_at >= t - HoursPerDay})

\* check_fraud with the volume test "daily_points >= 1000"
FraudReasonFrom1000(recent_redemptions, daily_points) ==
    IF recent_redemptions >= 5 THEN "Too many redemptions in short time"
    ELSE IF daily_points >= 1000 THEN "Suspicious point accumulation pattern"
    ELSE "none"

\* RewardService.check_fraud: the reason, or "none"
FraudReason(recent_redemptions, daily_points) ==
    IF recent_redemptions >= 5 THEN "Too many redemptions in short time"
    ELSE IF daily_points > 1000 THEN "Suspicious point accumulation pattern"
    ELSE "none"

CheckFraud(evs, u, t) ==
    FraudReason(RecentRedemptions(evs, u, t), RecentPoints(evs, u, t))

NoAccount == [exists |-> FALSE, points_balance |-> 0, tier |-> "none"]

\* the reward_accounts row the accrual commits: loaded is the row the ORM
\* read (NoAccount when there was none), current the row in the table.  The
\* UPDATE carries the attributes that changed on the loaded object.
AccountAfterAccrual(loaded, current, points_earned) ==
    LET balance == IF loaded.exists THEN loaded.points_balance + points_earned
                   ELSE points_earned
        new_tier == CalculateTier(balance)
    IN [exists |-> TRUE,
        points_balance |-> balance,
        tier |-> IF new_tier # loaded.tier THEN new_tier ELSE current.tier]

\* the reward_accounts row the redemption commits
AccountAfterRedemption(loaded, current, points) ==
    [current EXCEPT !.points_balance = loaded.points_balance - points]

IdleLoc == [op |-> "none", user |-> "none", etype |-> "none", md |-> "none",
            arg |-> 0, points |-> 0, loaded |-> NoAccount, velocity |-> 0]

\* both implementations start with empty ledgers; reward_rules holds one of
\* RuleTables in the ev-platform runs and is not read by the backend
InitTables ==
    /\ now = 0
    /\ rewards = <<>>
    /\ events = <<>>
    /\ accounts = [u \in BUsers |-> NoAccount]
    /\ pc = [p \in Procs |-> "idle"]
    /\ loc = [p \in Procs |-> IdleLoc]
    /\ redeemed = [u \in BUsers |-> 0]
    /\ last = NoResult

\* no function of the services is called directly in the runs of the handlers
NoCall == [fn |-> "none", x |-> 0, y |-> 0, rx |-> "none", ry |-> "none"]

Init == InitTables /\ rules \in RuleTables /\ call = NoCall
InitB == InitTables /\ rules = <<>> /\ call = NoCall

BDone(op, u, arg, et, status, detail, before, points) ==
    last' = Result("backend", op, u, arg, et, status, detail, before, points)

(***************************************************************************)
(* backend: POST /events, the whole handler in one step.  audit_ok tells   *)
(* whether AuditService.log_event, called after the commit, succeeds.      *)
(***************************************************************************)
BCreateRewardEvent(u, et, md, audit_ok, maxRows) ==
    LET points_earned == CalculatePoints(events, u, et, md, now)
        before == accounts[u].points_balance
    IN IF points_earned <= 0
       THEN /\ BDone("accrue", u, 0, et, 400, "No points earned for this event",
                     before, 0)
            /\ UNCHANGED <<now, rules, call, rewards, events, accounts, pc, loc, redeemed>>
       ELSE /\ Len(events) < maxRows
            /\ events' = Append(events, EventRow(u, et, points_earned, md, now))
            /\ accounts' = [accounts EXCEPT ![u] =
                               AccountAfterAccrual(accounts[u], accounts[u],
                                                   points_earned)]
            /\ BDone("accrue", u, 0, et, IF audit_ok THEN 201 ELSE 500,
                     IF audit_ok THEN "created" ELSE "audit log failed",
                     before, points_earned)
            /\ UNCHANGED <<now, rules, call, rewards, pc, loc, redeemed>>

(***************************************************************************)
(* backend: POST /redeem, the whole handler in one step.                   *)
(***************************************************************************)
BRedeemPoints(u, n, audit_ok) ==
    LET reward_account == accounts[u]
        before == reward_account.points_balance
        reason == CheckFraud(events, u, now)
    IN IF ~reward_account.exists \/ reward_account.points_balance < n
       THEN /\ BDone("redeem", u, n, "none", 400, "Insufficient points balance",
                     before, 0)
            /\ UNCHANGED <<now, rules, call, rewards, events, accounts, pc, loc, redeemed>>
       ELSE IF reason # "none"
       THEN /\ BDone("redeem", u, n, "none", 403, reason, before, 0)
            /\ UNCHANGED <<now, rules, call, rewards, events, accounts, pc, loc, redeemed>>
       ELSE /\ accounts' = [accounts EXCEPT ![u] =
                               AccountAfterRedemption(reward_account,
                                                      reward_account, n)]
            /\ redeemed' = [redeemed EXCEPT ![u] = @ + n]
            /\ BDone("redeem", u, n, "none", IF audit_ok THEN 201 ELSE 500,
                     IF audit_ok THEN "redeemed" ELSE "audit log failed", before, n)
            /\ UNCHANGED <<now, rules, call, rewards, events, pc, loc>>


(***************************************************************************)
(* ev-platform, requests handled one after another.                        *)
(***************************************************************************)
EVAccrue == \E u \in EVUserIds, et \in EVEventTypes, pts \in EVPoints :
                EVCreateRewardEvent(u, et, pts, MaxRewards)
EVRedeem == \E u \in EVUserIds, n \in EVRedeemAmounts : EVRedeemRewards(u, n)
EVTick == Tick(HoursPerDay)

NextEV == EVAccrue \/ EVRedeem \/ EVTick
SpecEV == Init /\ [][NextEV]_vars

(***************************************************************************)
(* ev-platform, one user accruing uncapped entries and redeeming them.     *)
(***************************************************************************)
AllocAccrue == \E pts \in AllocPoints :
                   EVCreateRewardEvent(1, "referral", pts, MaxAllocRewards)
AllocRedeem == \E n \in AllocRedeemAmounts : EVRedeemRewards(1, n)

NextAlloc == AllocAccrue \/ AllocRedeem
SpecAlloc == Init /\ [][NextAlloc]_vars

(***************************************************************************)
(* ev-platform, one user accruing, reading the balance and redeeming, over *)
(* more than the year after which an entry expires.                        *)
(***************************************************************************)
ExpiryAccrue == \E pts \in AllocPoints :
                    EVCreateRewardEvent(1, "referral", pts, MaxExpiryRewards)
ExpiryRedeem == \E n \in AllocRedeemAmounts : EVRedeemRewards(1, n)
ExpiryBalance == \E u \in EVUserIds : EVGetUserRewardBalance(u)
ExpiryTick ==
    /\ now + 366 * HoursPerDay <= MaxExpiryYears * 366 * HoursPerDay
    /\ now' = now + 366 * HoursPerDay
    /\ UNCHANGED <<rules, call, rewards, events, accounts, pc, loc, redeemed, last>>

NextExpiry == ExpiryAccrue \/ ExpiryRedeem \/ ExpiryBalance \/ ExpiryTick
SpecExpiry == Init /\ [][NextExpiry]_vars

(***************************************************************************)
(* backend, requests handled one after another.                            *)
(***************************************************************************)
BEventTypes == {"kyc_completed", "review_submitted", "daily_login"}
BRedeemAmounts == {40, 100}

BAccrue == \E u \in BUsers, et \in BEventTypes :
               BCreateRewardEvent(u, et, "none", TRUE, MaxEvents)
BRedeem == \E u \in BUsers, n \in BRedeemAmounts : BRedeemPoints(u, n, TRUE)
BTick == Tick(HoursPerDay)

NextB == BAccrue \/ BRedeem \/ BTick
SpecB == InitB /\ [][NextB]_vars

(***************************************************************************)
(* backend, requests handled one after another, where the                  *)
(* AuditService.log_event call that follows the commit may raise.          *)
(***************************************************************************)
AuditAccrue == \E u \in BUsers, et \in BEventTypes, audit_ok \in BOOLEAN :
                   BCreateRewardEvent(u, et, "none", audit_ok, MaxEvents)
AuditRedeem == \E u \in BUsers, n \in BRedeemAmounts, audit_ok \in BOOLEAN :
                   BRedeemPoints(u, n, audit_ok)

NextAudit == AuditAccrue \/ AuditRedeem
SpecAudit == InitB /\ [][NextAudit]_vars

(***************************************************************************)
(* backend, one user completing rentals, with any metadata, over two days. *)
(***************************************************************************)
CapMetadata == {"none", "dur8", "dur24"}

CapAccrue == \E md \in CapMetadata :
                 BCreateRewardEvent("u1", "rental_completed", md, TRUE, MaxCapEvents)
CapTick == Tick(HoursPerDay)

NextCap == CapAccrue \/ CapTick
SpecCap == InitB /\ [][NextCap]_vars

(***************************************************************************)
(* backend, requests of several worker processes interleaved.  Inside one  *)
(* worker the event loop runs a handler to its end without suspending (no  *)
(* coroutine it awaits ever yields), so requests interleave only between   *)
(* worker processes that share the database.  Every                        *)
(* worker has its own Session; the engine is created with the default      *)
(* isolation (READ COMMITTED on PostgreSQL), the handlers take no lock and *)
(* use no SELECT ... FOR UPDATE, so each query reads what is committed     *)
(* when it runs and db.commit() flushes the pending INSERT/UPDATE of the   *)
(* ORM objects and commits them.                                           *)
(***************************************************************************)
Finish(p) ==
    /\ pc' = [pc EXCEPT ![p] = "idle"]
    /\ loc' = [loc EXCEPT ![p] = IdleLoc]

\* create_reward_event up to the end of calculate_points (the cap-sum query)
PCalculatePoints(p, u, et, md) ==
    /\ pc[p] = "idle"
    /\ LET points_earned == CalculatePoints(events, u, et, md, now)
       IN IF points_earned <= 0
          THEN /\ BDone("accrue", u, 0, et, 400, "No points earned for this event",
                        accounts[u].points_balance, 0)
               /\ UNCHANGED <<pc, loc>>
          ELSE /\ pc' = [pc EXCEPT ![p] = "load_account"]
               /\ loc' = [loc EXCEPT ![p] =
                             [IdleLoc EXCEPT !.op = "accrue", !.user = u,
                                             !.etype = et, !.md = md,
                                             !.points = points_earned]]
               /\ UNCHANGED last
    /\ UNCHANGED <<now, rules, call, rewards, events, accounts, redeemed>>

\* db.query(RewardAccount).filter(user_id).first()
PLoadAccount(p) ==
    /\ pc[p] = "load_account"
    /\ pc' = [pc EXCEPT ![p] = "commit_accrual"]
    /\ loc' = [loc EXCEPT ![p].loaded = accounts[loc[p].user]]
    /\ UNCHANGED <<now, rules, call, rewards, events, accounts, redeemed, last>>

\* db.commit(): INSERT the event and INSERT or UPDATE the account.  A second
\* INSERT for the same user_id breaks the unique constraint: the transaction
\* fails and nothing of it is stored.
PCommitAccrual(p, maxRows) ==
    /\ pc[p] = "commit_accrual"
    /\ LET u == loc[p].user
           loaded == loc[p].loaded
       IN IF ~loaded.exists /\ accounts[u].exists
          THEN /\ BDone("accrue", u, 0, loc[p].etype, 500, "IntegrityError",
                        accounts[u].points_balance, 0)
               /\ UNCHANGED <<events, accounts>>
          ELSE /\ Len(events) < maxRows
               /\ events' = Append(events,
                       EventRow(u, loc[p].etype, loc[p].points, loc[p].md, now))
               /\ accounts' = [accounts EXCEPT ![u] =
                       AccountAfterAccrual(loaded, accounts[u], loc[p].points)]
               /\ BDone("accrue", u, 0, loc[p].etype, 201, "created",
                        loaded.points_balance, loc[p].points)
    /\ Finish(p)
    /\ UNCHANGED <<now, rules, call, rewards, redeemed>>

\* redeem_points: the account query and the balance check
PCheckBalance(p, u, n) ==
    /\ pc[p] = "idle"
    /\ LET reward_account == accounts[u]
       IN IF ~reward_account.exists \/ reward_account.points_balance < n
          THEN /\ BDone("redeem", u, n, "none", 400, "Insufficient points balance",
                        reward_account.points_balance, 0)
               /\ UNCHANGED <<pc, loc>>
          ELSE /\ pc' = [pc EXCEPT ![p] = "fraud_velocity"]
               /\ loc' = [loc EXCEPT ![p] =
                             [IdleLoc EXCEPT !.op = "redeem", !.user = u, !.arg = n,
                                             !.loaded = reward_account]]
               /\ UNCHANGED last
    /\ UNCHANGED <<now, rules, call, rewards, events, accounts, redeemed>>

\* check_fraud, first query
PFraudVelocity(p) ==
    /\ pc[p] = "fraud_velocity"
    /\ pc' = [pc EXCEPT ![p] = "fraud_volume"]
    /\ loc' = [loc EXCEPT ![p].velocity =
                  RecentRedemptions(events, loc[p].user, now)]
    /\ UNCHANGED <<now, rules, call, rewards, events, accounts, redeemed, last>>

\* check_fraud, second query, and the handler's test of its answer
PFraudVolume(p) ==
    /\ pc[p] = "fraud_volume"
    /\ LET reason == FraudReason(loc[p].velocity,
                                 RecentPoints(events, loc[p].user, now))
       IN IF reason # "none"
          THEN /\ BDone("redeem", loc[p].user, loc[p].arg, "none", 403, reason,
                        loc[p].loaded.points_balance, 0)
               /\ Finish(p)
          ELSE /\ pc' = [pc EXCEPT ![p] = "commit_redemption"]
               /\ UNCHANGED <<loc, last>>
    /\ UNCHANGED <<now, rules, call, rewards, events, accounts, redeemed>>

\* reward_account.points_balance -= points; db.commit()
PCommitRedemption(p) ==
    /\ pc[p] = "commit_redemption"
    /\ LET u == loc[p].user
       IN /\ accounts' = [accounts EXCEPT ![u] =
                 AccountAfterRedemption(loc[p].loaded, accounts[u], loc[p].arg)]
          /\ redeemed' = [redeemed EXCEPT ![u] = @ + loc[p].arg]
          /\ BDone("redeem", u, loc[p].arg, "none", 201, "redeemed",
                   loc[p].loaded.points_balance, loc[p].arg)
    /\ Finish(p)
    /\ UNCHANGED <<now, rules, call, rewards, events>>

ConcEventTypes == {"review_submitted"}
ConcRedeemAmounts == {5}

ConcStartAccrual == \E p \in Procs, et \in ConcEventTypes :
                        PCalculatePoints(p, "u1", et, "none")
ConcLoadAccount == \E p \in Procs : PLoadAccount(p)
ConcCommitAccrual == \E p \in Procs : PCommitAccrual(p, MaxConcEvents)
ConcStartRedemption == \E p \in Procs, n \in ConcRedeemAmounts :
                           PCheckBalance(p, "u1", n)
ConcFraudVelocity == \E p \in Procs : PFraudVelocity(p)
ConcFraudVolume == \E p \in Procs : PFraudVolume(p)
ConcCommitRedemption == \E p \in Procs : PCommitRedemption(p)

NextConc ==
    \/ ConcStartAccrual \/ ConcLoadAccount \/ ConcCommitAccrual
    \/ ConcStartRedemption \/ ConcFraudVelocity \/ ConcFraudVolume
    \/ ConcCommitRedemption
SpecConc == InitB /\ [][NextConc]_vars

(***************************************************************************)
(* Both implementations, two users each: ride accruals of 50 points and    *)
(* redemptions of 20 in ev-platform under the first rule table, reviews    *)
(* and redemptions of 15 points in the backend.  The backend starts either *)
(* empty or after user u2 has been awarded six referrals today.            *)
(***************************************************************************)
\* reward_accounts row of a user after n accruals of 200 points
RECURSIVE AccountAfterReferrals(_)
AccountAfterReferrals(n) ==
    IF n = 0 THEN NoAccount
    ELSE AccountAfterAccrual(AccountAfterReferrals(n - 1),
                             AccountAfterReferrals(n - 1),
                             POINTS_RULES("referral"))

InitUsers ==
    /\ now = 0
    /\ rewards = <<>>
    /\ \E n \in {0, 6} :
          /\ events = RepeatRow(EventRow("u2", "referral",
                                         POINTS_RULES("referral"), "none", 0), n)
          /\ accounts = [u \in BUsers |->
                            IF u = "u2" THEN AccountAfterReferrals(n)
                            ELSE NoAccount]
    /\ pc = [p \in Procs |-> "idle"]
    /\ loc = [p \in Procs |-> IdleLoc]
    /\ redeemed = [u \in BUsers |-> 0]
    /\ last = NoResult
    /\ rules \in {t \in RuleTables : t[1].daily_cap # 0}
    /\ call = NoCall

\* the rows of reward_events that are not referrals
ReviewRows(evs) == {i \in 1..Len(evs) : evs[i].event_type # "referral"}

UsersEVAccrue == \E u \in EVUsers :
                     EVCreateRewardEvent(u, "ride_completed", 50, MaxUsersRewards)
UsersEVRedeem == \E u \in EVUsers : EVRedeemRewards(u, 20)
UsersBAccrue == \E u \in BUsers :
                    BCreateRewardEvent(u, "review_submitted", "none", TRUE,
                        MaxUsersEvents + Len(events)
                            - Cardinality(ReviewRows(events)))
UsersBRedeem == \E u \in BUsers : BRedeemPoints(u, 15, TRUE)

NextUsers == UsersEVAccrue \/ UsersEVRedeem \/ UsersBAccrue \/ UsersBRedeem
SpecUsers == InitUsers /\ [][NextUsers]_vars

(***************************************************************************)
(* backend, one user earning referral and review points and redeeming      *)
(* them, over a day and a half.                                            *)
(***************************************************************************)
FraudEventTypes == {"referral", "review_submitted"}
FraudRedeemAmounts == {100}

FraudAccrue == \E et \in FraudEventTypes :
                   BCreateRewardEvent("u1", et, "none", TRUE, MaxFraudEvents)
FraudRedeem == \E n \in FraudRedeemAmounts : BRedeemPoints("u1", n, TRUE)
FraudTick ==
    /\ now + 18 <= MaxFraudNow
    /\ now' = now + 18
    /\ UNCHANGED <<rules, call, rewards, events, accounts, pc, loc, redeemed, last>>

NextFraud == FraudAccrue \/ FraudRedeem \/ FraudTick
SpecFraud == InitB /\ [][NextFraud]_vars

(***************************************************************************)
(* backend, one user earning referrals and sending redemption requests     *)
(* with any integer the RedemptionRequest schema admits: negative, zero,   *)
(* within the balance and above it.                                        *)
(***************************************************************************)
RedemptionPoints == {-50, 0, 50, 2000}

RedeemAccrue == BCreateRewardEvent("u1", "referral", "none", TRUE, MaxRedeemEvents)
RedeemRequest == \E n \in RedemptionPoints :
                     /\ accounts["u1"].points_balance - n <= MaxRedeemBalance
                     /\ BRedeemPoints("u1", n, TRUE)

NextRedeem == RedeemAccrue \/ RedeemRequest
SpecRedeem == InitB /\ [][NextRedeem]_vars

(***************************************************************************)
(* backend, RewardService.check_fraud called on a reward_events table      *)
(* given to it.  No handler of src writes a row of event type              *)
(* "points_redeemed" (redeem_points writes no row at all), so the rows     *)
(* the first query of check_fraud counts are drawn here as contents of the *)
(* table: for user u1, recent ones (created in the last hour) and old ones *)
(* (created two hours ago); for user u2, recent ones.  What points_earned  *)
(* such a row would hold is left open.                                     *)
(***************************************************************************)
RedemptionDeltas == {-5, 0}

RedemptionTable(recent, age, old, other, delta, t) ==
    RepeatRow(EventRow("u1", "points_redeemed", delta, "none", t - age), recent)
    \o RepeatRow(EventRow("u1", "points_redeemed", delta, "none", t - 2), old)
    \o RepeatRow(EventRow("u2", "points_redeemed", delta, "none", t), other)

InitVelocity ==
    /\ now = 2
    /\ rules = <<>>
    /\ rewards = <<>>
    /\ \E recent \in 0..MaxRecentRows, age \in {0, 1}, old \in 0..MaxOtherRows,
          other \in 0..MaxOtherRows, delta \in RedemptionDeltas :
           events = RedemptionTable(recent, age, old, other, delta, now)
    /\ accounts = [u \in BUsers |-> NoAccount]
    /\ pc = [p \in Procs |-> "idle"]
    /\ loc = [p \in Procs |-> IdleLoc]
    /\ redeemed = [u \in BUsers |-> 0]
    /\ last = NoResult
    /\ call \in {[NoCall EXCEPT !.x = u] : u \in BUsers}

\* check_fraud(user_id, redemption_data, db): rx is the reason it returns
CallCheckFraud ==
    /\ call.fn = "none"
    /\ call' = [call EXCEPT !.fn = "check_fraud",
                            !.rx = CheckFraud(events, call.x, now)]
    /\ UNCHANGED <<now, rules, rewards, events, accounts, pc, loc, redeemed, last>>

NextVelocity == CallCheckFraud
SpecVelocity == InitVelocity /\ [][NextVelocity]_vars

(***************************************************************************)
(* The tier calculators applied to two point totals: calculate_tier of the *)
(* backend and the tier derivation of ev-platform get_user_reward_balance. *)
(* The totals are the multiples of 500 up to MaxTierSteps * 500, the       *)
(* values just below them, and -1.                                         *)
(***************************************************************************)
TierInputs ==
    {-1} \cup {k * 500 - d : k \in 0..MaxTierSteps, d \in {0, 1}}

InitTier ==
    /\ InitTables
    /\ rules = <<>>
    /\ call \in {[NoCall EXCEPT !.x = x, !.y = y] : x, y \in TierInputs}

\* RewardService.calculate_tier(x) and RewardService.calculate_tier(y)
CallCalculateTier ==
    /\ call.fn = "none"
    /\ call' = [call EXCEPT !.fn = "calculate_tier",
                            !.rx = CalculateTier(call.x),
                            !.ry = CalculateTier(call.y)]
    /\ UNCHANGED <<now, rules, rewards, events, accounts, pc, loc, redeemed, last>>

\* the tier get_user_reward_balance derives from total_points x and from
\* total_points y
CallBalanceTier ==
    /\ call.fn = "none"
    /\ call' = [call EXCEPT !.fn = "get_user_reward_balance",
                            !.rx = EVTier(call.x),
                            !.ry = EVTier(call.y)]
    /\ UNCHANGED <<now, rules, rewards, events, accounts, pc, loc, redeemed, last>>

NextTier == CallCalculateTier \/ CallBalanceTier
SpecTier == InitTier /\ [][NextTier]_vars

(***************************************************************************)
(* Claims, ev-platform.                                                    *)
(***************************************************************************)
EVRedeemed == last.impl = "ev" /\ last.op = "redeem" /\ last.status = 200

\* C1: a successful redeem_rewards of N points decreases the user's
\* available_points (sum of points_earned over accrued, non-expired entries)
\* by exactly N.
C1_RedemptionConservation ==
    EVRedeemed => AvailablePoints(rewards, last.user) = last.before - last.arg

\* the indexes of the rows of user u, and the one created just before row i
UserIdx(rows, u) == {i \in 1..Len(rows) : rows[i].user_id = u}
PrevIdx(rows, i) ==
    {j \in UserIdx(rows, rows[i].user_id) :
        /\ j < i
        /\ \A k \in UserIdx(rows, rows[i].user_id) : k < i => k <= j}

\* C5: per user, in creation order, every entry's points_balance is the
\* previous entry's points_balance plus its own points_earned (the first
\* entry's is its own points_earned).
C5_RunningBalanceChain ==
    \A i \in 1..Len(rewards) :
        /\ PrevIdx(rewards, i) = {} =>
              rewards[i].points_balance = rewards[i].points_earned
        /\ \A j \in PrevIdx(rewards, i) :
              rewards[i].points_balance =
                  rewards[j].points_balance + rewards[i].points_earned

\* C9: an entry becomes redeemed only when all of its points are consumed;
\* with accrued entries of 100, 50 and 30 points, redeeming 120 leaves 60
\* points available.
C9_RedeemedOnlyWhenFullyConsumed ==
    /\ \A i \in 1..Len(rewards) :
          rewards[i].status = "redeemed" =>
              rewards[i].redemption_amount = rewards[i].points_earned
    /\ ( /\ EVRedeemed
         /\ last.arg = 120
         /\ last.before = 180
         /\ [i \in 1..Len(rewards) |-> rewards[i].points_earned] = <<100, 50, 30>> )
       => AvailablePoints(rewards, last.user) = 60

\* C10: no entry is consumed while an older accrued, non-expired entry of the
\* same user is left unconsumed.  Every insert is its own transaction, so
\* created_at grows with the row's place in the table.
C10_OldestFirst ==
    \A i, j \in 1..Len(rewards) :
        ( /\ i < j
          /\ rewards[i].user_id = rewards[j].user_id
          /\ rewards[j].status = "redeemed" )
        => ~ ( rewards[i].status = "accrued" /\ rewards[i].is_expired = FALSE )


(***************************************************************************)
(* Claims, backend.                                                        *)
(***************************************************************************)
\* the rows of user u and event type et created on the UTC day that holds t
DayEvents(evs, u, et, t) ==
    {i \in 1..Len(evs) : /\ evs[i].user_id = u
                         /\ evs[i].event_type = et
                         /\ Today(evs[i].created_at) = Today(t)}

CappedTypes == {"ride_completed", "parcel_delivered", "rental_completed",
                "review_submitted"}

\* C2: for one user, one event type and one UTC day, the sum of points_earned
\* recorded never exceeds the event type's daily cap.
C2_DailyCapNeverExceeded ==
    \A u \in BUsers, et \in CappedTypes, i \in 1..Len(events) :
        SumEvents(events, DayEvents(events, u, et, events[i].created_at))
            <= DAILY_CAPS(et)

\* the user's rows of reward_events
UserEvents(evs, u) == {i \in 1..Len(evs) : evs[i].user_id = u}

\* C4: summing the point deltas of all of a user's RewardEvent rows gives the
\* user's RewardAccount.points_balance.
C4_AccountRebuiltFromLedger ==
    \A u \in BUsers :
        SumEvents(events, UserEvents(events, u)) = accounts[u].points_balance

\* C6: under every interleaving of concurrent accruals of one event type for
\* one user, the cap-sum read and the ledger append of an accrual are not
\* interleaved with another's, so that the points awarded today never exceed
\* the daily cap.
C6_CapHoldsUnderConcurrency ==
    \A u \in BUsers, et \in CappedTypes :
        SumEvents(events, TodayEvents(events, u, et, now)) <= DAILY_CAPS(et)

\* C7: under every interleaving of concurrent redeem_points calls of one user,
\* the balance read and write of a redemption are not interleaved with
\* another's, so that the points reported as redeemed never exceed the points
\* the user had been awarded (no double spend).
C7_NoDoubleSpend ==
    \A u \in BUsers :
        redeemed[u] <= SumEvents(events, UserEvents(events, u))

(***************************************************************************)
(* Claims, both implementations.                                           *)
(***************************************************************************)
\* C3: available points are never negative: ev-platform, the sum of
\* points_earned over the user's accrued, non-expired entries; backend,
\* RewardAccount.points_balance.
C3_AvailableNeverNegative ==
    /\ \A u \in EVUsers : AvailablePoints(rewards, u) >= 0
    /\ \A u \in BUsers : accounts[u].points_balance >= 0

\* C8: a redemption asking for more points than the user has available is
\* refused with the insufficient-balance outcome (400) and leaves the balance
\* and every ledger entry as they were, in redeem_points and in redeem_rewards.
C8_InsufficientBalanceRefused ==
    [][ ( /\ last' # last
          /\ last'.op = "redeem"
          /\ last'.arg > last'.before )
        => ( /\ last'.status = 400
             /\ rewards' = rewards
             /\ events' = events
             /\ accounts' = accounts ) ]_vars

(***************************************************************************)
(* Claims about what a redemption and an accrual write.                    *)
(***************************************************************************)
\* C11: every successful redemption appends exactly one new ledger entry for
\* the user, whose point delta is minus the redeemed amount and which is
\* marked redeemed: a row of reward_events in redeem_points, a row of rewards
\* in redeem_rewards.
C11_RedemptionAppendsDebit ==
    [][ ( /\ last' # last
          /\ last'.op = "redeem"
          /\ last'.status \in {200, 201} )
        => IF last'.impl = "ev"
           THEN /\ Len(rewards') = Len(rewards) + 1
                /\ rewards'[Len(rewards')].user_id = last'.user
                /\ rewards'[Len(rewards')].points_earned = -last'.arg
                /\ rewards'[Len(rewards')].status = "redeemed"
           ELSE /\ Len(events') = Len(events) + 1
                /\ events'[Len(events')].user_id = last'.user
                /\ events'[Len(events')].points_earned = -last'.arg
                /\ events'[Len(events')].event_type = "points_redeemed" ]_vars

\* C12: an accrual whose award would take the user's total for the event type
\* in the current UTC day above the daily cap is never rejected outright: a
\* row is recorded whose award is exactly max(0, cap - points already earned
\* today), in the ev-platform handler and in the backend handler.
C12_OverCapAccrualIsClipped ==
    [][ ( last' # last /\ last'.op = "accrue" ) =>
        IF last'.impl = "ev"
        THEN /\ last'.detail # "Daily reward cap exceeded"
             /\ Len(rewards') > Len(rewards) =>
                   LET new == rewards'[Len(rewards')]
                       cap == rules[new.rule_applied].daily_cap
                       earned == WindowPoints(rewards, new.user_id,
                                              new.event_type, Today(now))
                   IN (cap # 0 /\ earned + last'.arg > cap)
                          => new.points_earned = Max(0, cap - earned)
        ELSE LET cap == DAILY_CAPS(last'.etype)
                 earned == SumEvents(events, TodayEvents(events, last'.user,
                                                         last'.etype, now))
             IN /\ (cap # 0 /\ earned + POINTS_RULES(last'.etype) > cap)
                       => Len(events') > Len(events)
                /\ Len(events') > Len(events) =>
                       LET new == events'[Len(events')]
                           award == (POINTS_RULES(last'.etype)
                                     * Multiplier10(last'.etype, new.metadata)) \div 10
                       IN (cap # 0 /\ earned + award > cap)
                              => new.points_earned = Max(0, cap - earned) ]_vars

\* the first hour of the week that holds hour t; day 0 is the first day of a
\* week
WeekStart(t) == ((t \div HoursPerDay) \div 7) * 7 * HoursPerDay

\* the points user and event type of row i had earned since the hour "since",
\* row i included, when row i was recorded
WindowSumAt(rows, i, since) ==
    SumPoints(rows, {j \in 1..i : /\ rows[j].user_id = rows[i].user_id
                                  /\ rows[j].event_type = rows[i].event_type
                                  /\ rows[j].created_at >= since})

C13_DailyAndMonthlyCaps ==
    \A i \in 1..Len(rewards) :
        LET rule == rules[rewards[i].rule_applied]
            t == rewards[i].created_at
        IN /\ rule.daily_cap # 0 =>
                  WindowSumAt(rewards, i, Today(t)) <= rule.daily_cap
           /\ rule.monthly_cap # 0 =>
                  WindowSumAt(rewards, i, MonthStart(t)) <= rule.monthly_cap

\* C13: for each cap the applied rule configures (daily_cap, weekly_cap,
\* monthly_cap), the points a user earned for the event type within the day,
\* week or month of an accrual never exceed that cap once it is recorded.
C13_WindowCapsNeverExceeded ==
    /\ C13_DailyAndMonthlyCaps
    /\ \A i \in 1..Len(rewards) :
          LET rule == rules[rewards[i].rule_applied]
              t == rewards[i].created_at
          IN rule.weekly_cap # 0 =>
                 WindowSumAt(rewards, i, WeekStart(t)) <= rule.weekly_cap

\* the user's entries that are accrued and whose expires_at is not before t
UnexpiredIdx(rows, u, t) ==
    {i \in 1..Len(rows) : /\ rows[i].user_id = u
                          /\ rows[i].status = "accrued"
                          /\ rows[i].expires_at >= t}

\* C14: only accrued entries that are not expired count toward
\* available_points and are consumed by a redemption: an entry whose
\* expires_at lies before the time of the balance query or of the redemption
\* is never counted and never consumed.
C14_ExpiredNeverCountedNorConsumed ==
    [][ ( /\ last' # last
          /\ last'.impl = "ev"
          /\ last'.op \in {"redeem", "balance"}
          /\ last'.user \in EVUsers )
        => ( /\ last'.before =
                    SumPoints(rewards, UnexpiredIdx(rewards, last'.user, now))
             /\ \A i \in 1..Len(rewards) :
                    ( rewards[i].status = "accrued"
                      /\ rewards'[i].status = "redeemed" )
                    => rewards[i].expires_at >= now ) ]_vars

(***************************************************************************)
(* Claims, fraud checks and tiers of the backend.                          *)
(***************************************************************************)
\* the redemption entries of user u created at most one hour before t
RedemptionEntries(evs, u, t) ==
    {i \in 1..Len(evs) : /\ evs[i].user_id = u
                         /\ evs[i].event_type = "points_redeemed"
                         /\ t - evs[i].created_at <= 1}

\* C15: check_fraud denies with the reason "Too many redemptions in short
\* time" whenever the user has 5 or more redemption entries created within the
\* trailing hour and does not with 4 or fewer; entries older than one hour
\* and entries of other users do not count.
C15_VelocityCheck ==
    call.fn = "check_fraud" =>
        ( call.rx = "Too many redemptions in short time"
          <=> Cardinality(RedemptionEntries(events, call.x, now)) >= 5 )

\* check_fraud denies user u1, who has exactly 5 entries of the last hour,
\* while older entries of u1 and entries of u2 are in the table
C15_Witness ==
    /\ call.fn = "check_fraud"
    /\ call.x = "u1"
    /\ call.rx = "Too many redemptions in short time"
    /\ Cardinality(RedemptionEntries(events, "u1", now)) = 5
    /\ \E i \in 1..Len(events) :
          events[i].user_id = "u1" /\ now - events[i].created_at > 1
    /\ \E i \in 1..Len(events) : events[i].user_id = "u2"

\* the sum of the positive point deltas of user u created at most 24 hours
\* before t
PositivePoints(evs, u, t) ==
    SumEvents(evs, {i \in 1..Len(evs) : /\ evs[i].user_id = u
                                        /\ evs[i].points_earned > 0
                                        /\ t - evs[i].created_at <= HoursPerDay})

\* C16: check_fraud denies with the reason "Suspicious point accumulation
\* pattern" exactly when the velocity check passes and the sum of the user's
\* positive point deltas of the trailing 24 hours is strictly above 1000; a
\* sum of exactly 1000 and points earned more than 24 hours ago cause no
\* denial.  redeem_points asks check_fraud once the balance covers the
\* request.
C16_VolumeCheck ==
    [][ ( /\ last' # last
          /\ last'.impl = "backend"
          /\ last'.op = "redeem"
          /\ accounts[last'.user].exists
          /\ accounts[last'.user].points_balance >= last'.arg )
        => ( ( /\ last'.status = 403
               /\ last'.detail = "Suspicious point accumulation pattern" )
             <=> ( /\ Cardinality(RedemptionEntries(events, last'.user, now)) < 5
                   /\ PositivePoints(events, last'.user, now) > 1000 ) ) ]_vars

\* a redemption is denied for its volume while the user earned 1005 points in
\* the last 24 hours and more than that overall
C16_Witness ==
    /\ last.impl = "backend"
    /\ last.op = "redeem"
    /\ last.status = 403
    /\ last.detail = "Suspicious point accumulation pattern"
    /\ PositivePoints(events, last.user, now) = 1005
    /\ SumEvents(events, UserEvents(events, last.user)) > 1005

\* a redemption asked with exactly 1000 points earned in the last 24 hours is
\* granted
C16_AllowedAtThreshold ==
    /\ last.impl = "backend"
    /\ last.op = "redeem"
    /\ last.status = 201
    /\ last.before = 1000
    /\ now = 0

\* C17: after any sequence of accruals and redemptions the tier stored on a
\* user's RewardAccount is the tier calculate_tier gives for the user's
\* lifetime points, the sum of all points the user ever accrued (so that the
\* stored tier never decreases).
C17_StoredTierIsLifetimeTier ==
    \A u \in BUsers :
        accounts[u].exists =>
            accounts[u].tier =
                CalculateTier(SumEvents(events, UserEvents(events, u)))

\* the place of a tier in the order bronze < silver < gold < platinum; an
\* account not yet created ranks below bronze
TierRank(tier) ==
    CASE tier \in {"bronze", "Bronze"} -> 1
      [] tier \in {"silver", "Silver"} -> 2
      [] tier \in {"gold", "Gold"} -> 3
      [] tier \in {"platinum", "Platinum"} -> 4
      [] OTHER -> 0

\* the stored tier never decreases
C17_StoredTierNeverDecreases ==
    [][ \A u \in BUsers :
            TierRank(accounts'[u].tier) >= TierRank(accounts[u].tier) ]_vars

\* C18: calculate_tier and the tier derivation of get_user_reward_balance are
\* deterministic and non-decreasing: two calls with the same point total give
\* the same tier, and for totals x <= y the tier for x is not above the tier
\* for y in the order bronze < silver < gold < platinum.
C18_TierDeterministicAndMonotone ==
    call.fn \in {"calculate_tier", "get_user_reward_balance"} =>
        /\ TierRank(call.rx) >= 1
        /\ TierRank(call.ry) >= 1
        /\ call.x = call.y => call.rx = call.ry
        /\ call.x <= call.y => TierRank(call.rx) <= TierRank(call.ry)

\* calculate_tier was applied on both sides of the platinum threshold
C18_Witness ==
    /\ call.fn = "calculate_tier"
    /\ call.x = 14999
    /\ call.y = 15000
    /\ call.rx = "gold"
    /\ call.ry = "platinum"

(***************************************************************************)
(* Claims about the rule an accrual applies.                               *)
(***************************************************************************)
\* the active rules of event type et
ActiveRules(rs, et) ==
    {i \in 1..Len(rs) : rs[i].event_type = et /\ rs[i].is_active}

\* the rule applied to an accrual is an active rule of the event's type with
\* the highest priority among such rules
C19_HighestPriority ==
    \A i \in 1..Len(rewards) :
        LET act == ActiveRules(rules, rewards[i].event_type)
        IN /\ rewards[i].rule_applied \in act
           /\ \A k \in act :
                  rules[k].priority <= rules[rewards[i].rule_applied].priority

\* C19: the rule applied to an accrual is an active rule of the event's type
\* with the highest priority among such rules, and when several active rules
\* share that priority, the most recently created of them (rules are created
\* in id order).
C19_RuleSelection ==
    /\ C19_HighestPriority
    /\ \A i \in 1..Len(rewards) :
          \A k \in ActiveRules(rules, rewards[i].event_type) :
              rules[k].priority = rules[rewards[i].rule_applied].priority
                  => k <= rewards[i].rule_applied

\* C20: an accrual for an event type that has no active rule completes as a
\* zero-point no-op and is not reported as a failure, in the ev-platform
\* handler (no active row of reward_rules) and in the backend handler (no
\* entry of POINTS_RULES).
C20_NoRuleIsNoOp ==
    [][ ( /\ last' # last
          /\ last'.op = "accrue"
          /\ IF last'.impl = "ev"
             THEN last'.user \in EVUsers /\ ActiveRules(rules, last'.etype) = {}
             ELSE POINTS_RULES(last'.etype) = 0 )
        => ( /\ last'.status \in {200, 201}
             /\ last'.points = 0
             /\ rewards' = rewards
             /\ events' = events
             /\ accounts' = accounts ) ]_vars

(***************************************************************************)
(* Claims about the outcomes the handlers report.                          *)
(***************************************************************************)
BusinessOutcomes ==
    {"User not found", "No reward rule found for this event type",
     "Daily reward cap exceeded", "Monthly reward cap exceeded",
     "Insufficient points for redemption"}

\* C21: in the ev-platform create_reward_event and redeem_rewards handlers a
\* business outcome (unknown user, no applicable rule, cap exceeded,
\* insufficient points) reaches the caller as its own outcome and is never
\* turned into the internal-error outcome (status 500).
C21_BusinessOutcomesAreNotInternalErrors ==
    ( /\ last.impl = "ev"
      /\ last.op \in {"accrue", "redeem"}
      /\ last.detail \in BusinessOutcomes )
    => last.status # 500

\* C22: in the backend create_reward_event and redeem_points handlers a
\* failure of the audit step that follows the commit neither undoes the
\* committed ledger and balance change nor makes the accrual or redemption
\* report a failure to its caller.
C22_AuditFailureDoesNotFailOperation ==
    [][ ( /\ last' # last
          /\ last'.impl = "backend"
          /\ last'.detail = "audit log failed" )
        => ( /\ accounts' # accounts
             /\ last'.status = 201 ) ]_vars

\* the committed change stays when the audit step fails
C22_AuditFailureKeepsCommit ==
    [][ ( /\ last' # last
          /\ last'.impl = "backend"
          /\ last'.detail = "audit log failed" )
        => accounts'[last'.user].points_balance =
               IF last'.op = "accrue"
               THEN accounts[last'.user].points_balance + last'.points
               ELSE accounts[last'.user].points_balance - last'.points ]_vars

(***************************************************************************)
(* Claims about what the handlers leave alone.                             *)
(***************************************************************************)
\* C23: once a rewards entry is created, no accrual or redemption deletes it
\* or changes its user_id, event_type, points_earned or points_balance, and
\* its status only moves from accrued to redeemed or expired and never
\* changes again after that.
C23_EntriesAreImmutable ==
    [][ /\ Len(rewards') >= Len(rewards)
        /\ \A i \in 1..Len(rewards) :
              /\ rewards'[i].user_id = rewards[i].user_id
              /\ rewards'[i].event_type = rewards[i].event_type
              /\ rewards'[i].points_earned = rewards[i].points_earned
              /\ rewards'[i].points_balance = rewards[i].points_balance
              /\ \/ rewards'[i].status = rewards[i].status
                 \/ /\ rewards[i].status = "accrued"
                    /\ rewards'[i].status \in {"redeemed", "expired"} ]_vars

\* a redemption of 20 points has marked a larger entry redeemed, next to an
\* entry redeemed by an earlier redemption and one still accrued
C23_Witness ==
    /\ EVRedeemed
    /\ last.arg = 20
    /\ \E i, j, k \in 1..Len(rewards) :
          /\ rewards[i].status = "redeemed"
          /\ rewards[i].redemption_amount = 20
          /\ rewards[i].points_earned > 20
          /\ j # i
          /\ rewards[j].status = "redeemed"
          /\ rewards[k].status = "accrued"

\* the rows of a table that belong to user u
OwnRows(rows, u) ==
    LET IsOwn(r) == r.user_id = u IN SelectSeq(rows, IsOwn)

\* an ev-platform accrual of pts points under rule passes the caps, judged on
\* the rows given
PassesCaps(rows, rule, u, et, pts, t) ==
    /\ ~ ( rule.daily_cap # 0
           /\ WindowPoints(rows, u, et, Today(t)) + pts > rule.daily_cap )
    /\ ~ ( rule.monthly_cap # 0
           /\ WindowPoints(rows, u, et, MonthStart(t)) + pts > rule.monthly_cap )

\* the request that completes in this step leaves the other users' rows,
\* balance and tier as they were
C24_OtherUsersUnchanged ==
    [][ last' # last =>
        IF last'.impl = "ev"
        THEN /\ \A i \in 1..Len(rewards) :
                   rewards[i].user_id # last'.user => rewards'[i] = rewards[i]
             /\ \A i \in (Len(rewards) + 1)..Len(rewards') :
                   rewards'[i].user_id = last'.user
             /\ events' = events
             /\ accounts' = accounts
        ELSE /\ \A i \in 1..Len(events) : events'[i] = events[i]
             /\ \A i \in (Len(events) + 1)..Len(events') :
                   events'[i].user_id = last'.user
             /\ \A u \in BUsers : u # last'.user => accounts'[u] = accounts[u]
             /\ rewards' = rewards ]_vars

\* C24: an accrual or redemption for one user leaves every other user's
\* ledger entries, balance and tier unchanged, and its cap, balance and fraud
\* decisions are the ones the user's own entries alone give, in the backend
\* and in ev-platform.
C24_UsersAreIndependent ==
    /\ C24_OtherUsersUnchanged
    /\ [][ ( last' # last /\ last'.impl = "backend" /\ last'.op = "accrue" ) =>
           LET own == OwnRows(events, last'.user)
               p == CalculatePoints(own, last'.user, last'.etype, "none", now)
           IN IF p > 0 THEN last'.status = 201 /\ last'.points = p
              ELSE last'.status = 400 ]_vars
    /\ [][ ( last' # last /\ last'.impl = "backend" /\ last'.op = "redeem" ) =>
           LET own == OwnRows(events, last'.user)
               covered == /\ accounts[last'.user].exists
                          /\ accounts[last'.user].points_balance >= last'.arg
           IN last'.status = IF ~covered THEN 400
                             ELSE IF CheckFraud(own, last'.user, now) # "none"
                             THEN 403 ELSE 201 ]_vars
    /\ [][ ( last' # last /\ last'.impl = "ev" /\ last'.op = "accrue" ) =>
           LET own == OwnRows(rewards, last'.user)
           IN /\ last'.status = 200 =>
                    \E rule \in ApplicableRules(rules, last'.etype) :
                        PassesCaps(own, rule, last'.user, last'.etype,
                                   last'.arg, now)
              /\ last'.detail \in {"Daily reward cap exceeded",
                                   "Monthly reward cap exceeded"} =>
                    \E rule \in ApplicableRules(rules, last'.etype) :
                        ~PassesCaps(own, rule, last'.user, last'.etype,
                                    last'.arg, now)
              /\ last'.status = 200 =>
                    last'.before = CurrentBalance(own, last'.user) ]_vars
    /\ [][ ( last' # last /\ last'.impl = "ev" /\ last'.op = "redeem" ) =>
           LET own == OwnRows(rewards, last'.user)
           IN /\ last'.before = AvailablePoints(own, last'.user)
              /\ last'.status = 200 <=> last'.before >= last'.arg ]_vars

\* user u1 is at the daily cap of reviews and is refused while u2 has been
\* awarded a review; ev-platform user 1 holds a ride entry of the day and user
\* 2 has been awarded one as well
C24_Witness ==
    /\ last.impl = "backend"
    /\ last.op = "accrue"
    /\ last.user = "u1"
    /\ last.status = 400
    /\ accounts["u2"].exists
    /\ \E i, j \in 1..Len(rewards) :
          rewards[i].user_id = 1 /\ rewards[j].user_id = 2

\* a redemption of user u1 is granted while user u2 has earned more than 1000
\* points in the last 24 hours
C24_GrantedBesideSuspectUser ==
    /\ last.impl = "backend"
    /\ last.op = "redeem"
    /\ last.user = "u1"
    /\ last.status = 201
    /\ RecentPoints(events, "u2", now) > 1000


(***************************************************************************)
(* Claims about the fraud gate of redeem_points.                           *)
(***************************************************************************)
\* C25: in the backend at most 5 redemptions of one user succeed within one
\* hour: after 5 successful redemptions in the last hour the next attempt is
\* denied as fraud.  The redemptions of the fraud runs are of 100 points each
\* and the clock moves by 18 hours, so while the clock stands at 0 the
\* redeemed total counts the successful redemptions of the current hour.
C25_AtMostFiveRedemptionsPerHour ==
    now = 0 => redeemed["u1"] <= 5 * 100

\* C26: in the backend a successful redeem_points call never leaves the user's
\* points_balance higher than it was before the call, whatever integer the
\* request carries in points (zero and negative values included).
C26_RedemptionNeverRaisesBalance ==
    [][ ( /\ last' # last
          /\ last'.impl = "backend"
          /\ last'.op = "redeem"
          /\ last'.status = 201 )
        => accounts'[last'.user].points_balance
               <= accounts[last'.user].points_balance ]_vars

\* C28: in backend redeem_points the fraud heuristic is evaluated before the
\* balance check: a redemption the heuristic denies is answered as blocked
\* (403) with the reason of the heuristic, also when the requested points
\* exceed the balance of the user.
C28_FraudGateBeforeBalanceCheck ==
    [][ ( /\ last' # last
          /\ last'.impl = "backend"
          /\ last'.op = "redeem"
          /\ CheckFraud(events, last'.user, now) # "none" )
        => ( /\ last'.status = 403
             /\ last'.detail = CheckFraud(events, last'.user, now) ) ]_vars


(***************************************************************************)
(* Claims about the points of an ev-platform accrual.                      *)
(***************************************************************************)
\* C27: in ev-platform create_reward_event the points recorded for an accrual
\* come from points_per_event of the applied rule, clipped by the caps of the
\* rule, and not from the points value the caller sent.  No rule of the runs
\* carries a multiplier, so an entry never holds more than points_per_event of
\* its rule and holds exactly that under a rule without caps.
C27_PointsComeFromRule ==
    \A i \in 1..Len(rewards) :
        LET rule == rules[rewards[i].rule_applied]
        IN /\ rewards[i].points_earned <= rule.points_per_event
           /\ ( /\ rule.daily_cap = 0
                /\ rule.weekly_cap = 0
                /\ rule.monthly_cap = 0 )
              => rewards[i].points_earned = rule.points_per_event


(***************************************************************************)
(* Claims about concurrent accruals and redemption identifiers.            *)
(***************************************************************************)
\* C29: in the backend, with accruals only, whatever way concurrent
\* create_reward_event calls of one user interleave, once they have all
\* finished the user's RewardAccount.points_balance is the sum of points_earned
\* over the user's committed RewardEvent rows: no award is lost.
C29_NoAwardLostUnderConcurrency ==
    \A u \in BUsers :
        ( /\ \A p \in Procs : pc[p] = "idle"
          /\ redeemed[u] = 0 )
        => accounts[u].points_balance = SumEvents(events, UserEvents(events, u))

\* C30: in ev-platform redeem_rewards two distinct successful redemptions
\* receive different redemption_id values, also when they are redemptions of
\* one user processed within the same second.  Stated for a successful
\* redemption that follows another one: the clock does not move in a
\* redemption, so the earlier identifier was made from a reading of at most
\* now and equals RedemptionId(last.user, now) when the clock stood still.
C30_RedemptionIdsAreDistinct ==
    [][ ( /\ last' # last
          /\ last.impl = "ev" /\ last.op = "redeem" /\ last.status = 200
          /\ last'.impl = "ev" /\ last'.op = "redeem" /\ last'.status = 200
          /\ now' = now )
        => RedemptionId(last'.user, now') # RedemptionId(last.user, now) ]_vars

====
